---- MODULE Spec2Model ----
(***************************************************************************)
(* A model of the single-digit Pratt parser: the tokenizer New, the token  *)
(* cursor (Lexer.next, Lexer.peek over a reversed TokenArray), the         *)
(* recursive parse and the tree-walking evalExpression of src/main.go,     *)
(* and the tokenizer and cursor of the earlier variant                     *)
(* src/unnamed/part_001.                                                   *)
(*                                                                         *)
(* Characters are code points (runes).  Tokens and expressions are         *)
(* records tagged with the Go type they model.  A Go panic ends the        *)
(* process: the model records it in `panic` and moves to pc = "crashed".   *)
(* A panic raised by a panic("...") statement of the source has kind       *)
(* "explicit"; a panic raised by the Go runtime (nil dereference, index    *)
(* out of range, integer divide by zero) has kind "runtime".               *)
(***************************************************************************)
EXTENDS Integers, Sequences, FiniteSets

VARIABLES
    input,      \* the string handed to New (a sequence of runes)
    tokens,     \* Lexer.tokens: the reversed TokenArray, popped from its end
    returned,   \* history: every value returned by Lexer.next so far, in call order
    peeked,     \* the value returned by the latest Lexer.peek of the cursor harness
    pc,         \* position of main / of the cursor harness
    stack,      \* the active invocations of parse, outermost first
    parsed,     \* main's `parsed`: the expression parse(lexer, 0) returned
    output,     \* what main printed (a sequence of integers, at most one)
    panic,      \* the panic that ended the process, NoPanic while it runs
    steps       \* history: the number of steps main has taken

vars == <<input, tokens, returned, peeked, pc, stack, parsed, output, panic, steps>>

----------------------------------------------------------------------------
(* Bounds of the model. *)

\* longest line body (without its newline) given to main
MaxLen == 5
\* longest string given to New by the cursor harness
MaxLexLen == 4

\* the characters a line body is drawn from: 0 1 2 3 + - * /
LineChars == {48, 49, 50, 51, 43, 45, 42, 47}

\* the characters the cursor harness draws from: space, 1, 2, +, *, @,
\* U+0131 (305 = 256 + '1') and U+0120 (288 = 256 + ' ')
LexChars == {32, 49, 50, 43, 42, 64, 305, 288}

\* the line bodies used as examples that need the digits 4 and 5:
\* -3+5, 5/0, 5/0*3 and 1-4/0
NamedLines ==
    {<<45, 51, 43, 53>>, <<53, 47, 48>>, <<53, 47, 48, 42, 51>>,
     <<49, 45, 52, 47, 48>>}

SeqsUpTo(S, n) == UNION {[1..k -> S] : k \in 0..n}

----------------------------------------------------------------------------
(* Tokens, expressions, panics. *)

IntegerToken(v) == [type |-> "Integer", value |-> v]

OperatorToken(lit) == [type |-> "Operand", literal |-> lit]

\* the nil Token interface value
NilToken == [type |-> "nil"]

\* the nil Expression interface value
NilExpr == [kind |-> "nil"]

IntegerExpr(v) == [kind |-> "IntegerToken", value |-> v]

PrefixExpression(op, rhs) == [kind |-> "PrefixExpression", op |-> op, rhs |-> rhs]

InfixExpression(lhs, rhs, op) ==
    [kind |-> "InfixExpression", lhs |-> lhs, rhs |-> rhs, op |-> op]

NoPanic == [kind |-> "none", msg |-> ""]

ExplicitPanic(msg) == [kind |-> "explicit", msg |-> msg]

RuntimeError(msg) == [kind |-> "runtime", msg |-> msg]

----------------------------------------------------------------------------
(* TokenArray.Reverse *)

Swap(c, s, e) == [c EXCEPT ![s] = c[e], ![e] = c[s]]

\* a Reverse whose loop stops one swap early (e-s > 1)
RECURSIVE ReverseLoopShort(_, _, _)
ReverseLoopShort(c, s, e) ==
    IF e - s > 1 THEN ReverseLoopShort(Swap(c, s, e), s + 1, e - 1) ELSE c

\* main.go: for e-s >= 1 { swap c[s], c[e]; s += 1; e -= 1 }
RECURSIVE ReverseLoop(_, _, _)
ReverseLoop(c, s, e) ==
    IF e - s >= 1 THEN ReverseLoop(Swap(c, s, e), s + 1, e - 1) ELSE c

\* s := 0; e := len(c) - 1 (indices are 1-based here, e - s is the same)
Reverse(c) == ReverseLoop(c, 1, Len(c))

\* part_001: for e-s > 1 { swap c[s], c[e]; s += 1; e -= 1 }
RECURSIVE EarlyReverseLoop(_, _, _)
EarlyReverseLoop(c, s, e) ==
    IF e - s > 1 THEN EarlyReverseLoop(Swap(c, s, e), s + 1, e - 1) ELSE c

EarlyReverse(c) == EarlyReverseLoop(c, 1, Len(c))

----------------------------------------------------------------------------
(* New: the tokenizer *)

\* byte(char): a rune narrowed to 8 bits
ByteOf(char) == char % 256

\* for _, char := range input { buffer.WriteByte(byte(char)) }
WriteBytes(in) == [i \in 1..Len(in) |-> ByteOf(in[i])]

IsSpaceByte(c) == c \in {32, 13, 9, 10}

IsDigitByte(c) == c >= 48 /\ c <= 57

IsOperatorByte(c) == c \in {43, 45, 42, 47}

\* string(c) for the four operator bytes
ByteString(c) ==
    CASE c = 43 -> "+"
      [] c = 45 -> "-"
      [] c = 42 -> "*"
      [] c = 47 -> "/"

\* strconv.Atoi(string(c)) for a digit byte
Atoi(c) == c - 48

\* the scan loop of New over charArray[i..], appending to tokenArray
RECURSIVE ScanFrom(_, _, _)
ScanFrom(charArray, i, tokenArray) ==
    IF i > Len(charArray) THEN tokenArray
    ELSE LET c == charArray[i] IN
         IF IsSpaceByte(c) THEN ScanFrom(charArray, i + 1, tokenArray)
         ELSE IF IsDigitByte(c)
              THEN ScanFrom(charArray, i + 1, Append(tokenArray, IntegerToken(Atoi(c))))
         ELSE IF IsOperatorByte(c)
              THEN ScanFrom(charArray, i + 1, Append(tokenArray, OperatorToken(ByteString(c))))
         ELSE ScanFrom(charArray, i + 1, tokenArray)

\* the token array New builds before it reverses it: the tokens in input order
Scan(in) == ScanFrom(WriteBytes(in), 1, <<>>)

\* New(input).tokens
New(in) == Reverse(Scan(in))

\* part_001's New(input).tokens: the same scan, then part_001's Reverse
EarlyNew(in) == EarlyReverse(Scan(in))

----------------------------------------------------------------------------
(* Lexer.next, Lexer.peek *)

\* a next() that returns the last element and forgets to shrink the array
LexerNextNoPop(toks) ==
    IF Len(toks) = 0
    THEN [token |-> NilToken, tokens |-> toks, panic |-> NoPanic]
    ELSE [token |-> toks[Len(toks)], tokens |-> toks, panic |-> NoPanic]

\* main.go next(): nil on an empty array, else pop the last element
LexerNext(toks) ==
    IF Len(toks) = 0
    THEN [token |-> NilToken, tokens |-> toks, panic |-> NoPanic]
    ELSE [token |-> toks[Len(toks)], tokens |-> SubSeq(toks, 1, Len(toks) - 1),
          panic |-> NoPanic]

\* peek(): nil on an empty array, else the last element
LexerPeek(toks) == IF Len(toks) < 1 THEN NilToken ELSE toks[Len(toks)]

\* part_001 next(): panic("Error: tokens empty") on an empty array
EarlyLexerNext(toks) ==
    IF Len(toks) = 0
    THEN [token |-> NilToken, tokens |-> toks,
          panic |-> ExplicitPanic("Error: tokens empty")]
    ELSE [token |-> toks[Len(toks)], tokens |-> SubSeq(toks, 1, Len(toks) - 1),
          panic |-> NoPanic]

\* part_001 peek()
EarlyLexerPeek(toks) == IF Len(toks) < 1 THEN NilToken ELSE toks[Len(toks)]

----------------------------------------------------------------------------
(* The cursor harness: New, then peek and next in turn until next finds    *)
(* the cursor exhausted.                                                   *)

LexInit ==
    /\ input \in SeqsUpTo(LexChars, MaxLexLen)
    /\ tokens = <<>>
    /\ returned = <<>>
    /\ peeked = NilToken
    /\ pc = "New"
    /\ stack = <<>>
    /\ parsed = NilExpr
    /\ output = <<>>
    /\ panic = NoPanic
    /\ steps = 0

LexNew ==
    /\ pc = "New"
    /\ tokens' = New(input)
    /\ pc' = "peek"
    /\ UNCHANGED <<input, returned, peeked, stack, parsed, output, panic, steps>>

LexPeek ==
    /\ pc = "peek"
    /\ peeked' = LexerPeek(tokens)
    /\ pc' = "next"
    /\ UNCHANGED <<input, tokens, returned, stack, parsed, output, panic, steps>>

LexNext ==
    /\ pc = "next"
    /\ LET r == LexerNext(tokens) IN
        /\ returned' = Append(returned, r.token)
        /\ tokens' = r.tokens
        /\ pc' = IF r.token = NilToken THEN "drained" ELSE "peek"
    /\ UNCHANGED <<input, peeked, stack, parsed, output, panic, steps>>

LexStep == LexNew \/ LexPeek \/ LexNext

LexSpec == LexInit /\ [][LexStep]_vars

(* The same harness over part_001's New, next and peek. *)

EarlyNewStep ==
    /\ pc = "New"
    /\ tokens' = EarlyNew(input)
    /\ pc' = "peek"
    /\ UNCHANGED <<input, returned, peeked, stack, parsed, output, panic, steps>>

EarlyPeekStep ==
    /\ pc = "peek"
    /\ peeked' = EarlyLexerPeek(tokens)
    /\ pc' = "next"
    /\ UNCHANGED <<input, tokens, returned, stack, parsed, output, panic, steps>>

EarlyNextStep ==
    /\ pc = "next"
    /\ LET r == EarlyLexerNext(tokens) IN
        IF r.panic # NoPanic
        THEN /\ panic' = r.panic
             /\ pc' = "crashed"
             /\ UNCHANGED <<tokens, returned>>
        ELSE /\ returned' = Append(returned, r.token)
             /\ tokens' = r.tokens
             /\ pc' = "peek"
             /\ UNCHANGED panic
    /\ UNCHANGED <<input, peeked, stack, parsed, output, steps>>

EarlyStep == EarlyNewStep \/ EarlyPeekStep \/ EarlyNextStep

EarlySpec == LexInit /\ [][EarlyStep]_vars

----------------------------------------------------------------------------
(* The binding-power tables of parse.  A Go slice {l, r} is the tuple       *)
(* <<l, r>>: Go's index 0 is index 1 here.                                  *)

OperatorLiterals == {"+", "-", "*", "/"}

\* a table in which * and / bind no tighter than + and -
FlatBindingPowerMap == [lit \in OperatorLiterals |-> <<1, 2>>]

\* a table whose + and - associate to the right
RightAssocBindingPowerMap ==
    [lit \in OperatorLiterals |-> IF lit \in {"+", "-"} THEN <<2, 1>> ELSE <<3, 4>>]

operatorBindingPowerMap ==
    [lit \in OperatorLiterals |-> IF lit \in {"+", "-"} THEN <<1, 2>> ELSE <<3, 4>>]

prefixBindingPowerMap == [lit \in {"+", "-"} |-> <<0, 5>>]

\* strconv.Itoa of a single digit
Itoa(v) == <<"0", "1", "2", "3", "4", "5", "6", "7", "8", "9">>[v + 1]

\* Token.getExpressionValue
TokenExpressionValue(tok) ==
    IF tok.type = "Integer" THEN Itoa(tok.value) ELSE tok.literal

----------------------------------------------------------------------------
(* evalExpression and evalPrefix.  Go's int is 64 bits wide; the values of  *)
(* trees over at most MaxLen + 1 single digits stay far inside that range,  *)
(* so the arithmetic is modelled on the integers.                           *)

Abs(a) == IF a < 0 THEN -a ELSE a

\* Go's a / b for b # 0: the quotient truncated toward zero
GoDiv(a, b) ==
    LET q == Abs(a) \div Abs(b) IN IF (a < 0) # (b < 0) THEN -q ELSE q

Value(v) == [panic |-> NoPanic, value |-> v]

Panicked(p) == [panic |-> p, value |-> 0]

\* operationFunctionMap[op](a, b)
ApplyOperation(op, a, b) ==
    CASE op = "+" -> Value(a + b)
      [] op = "-" -> Value(a - b)
      [] op = "*" -> Value(a * b)
      [] op = "/" -> IF b = 0
                     THEN Panicked(RuntimeError("integer divide by zero"))
                     ELSE Value(GoDiv(a, b))
      [] OTHER -> Panicked(RuntimeError("invalid memory address or nil pointer dereference"))

RECURSIVE EvalExpression(_), EvalPrefix(_)

EvalPrefix(e) ==
    CASE e.op = "+" ->
            LET r == EvalExpression(e.rhs) IN
            IF r.panic # NoPanic THEN r ELSE Value(1 * r.value)
      [] e.op = "-" ->
            LET r == EvalExpression(e.rhs) IN
            IF r.panic # NoPanic THEN r ELSE Value((-1) * r.value)
      [] OTHER -> Panicked(ExplicitPanic("Should not reach here"))

EvalExpression(e) ==
    CASE e.kind = "IntegerToken" -> Value(e.value)
      [] e.kind = "PrefixExpression" -> EvalPrefix(e)
      [] e.kind = "InfixExpression" ->
            LET a == EvalExpression(e.lhs) IN
            IF a.panic # NoPanic THEN a
            ELSE LET b == EvalExpression(e.rhs) IN
                 IF b.panic # NoPanic THEN b
                 ELSE ApplyOperation(e.op, a.value, b.value)
      [] OTHER -> Value(0)

----------------------------------------------------------------------------
(* main: read a line, New, parse(lexer, 0), evalExpression, Println.        *)
(* An invocation of parse is a frame: its min_bp, its position (pc), its    *)
(* lhs, the operator whose right-hand side it waits for, and `entry`, the   *)
(* length of Lexer.tokens when it was entered (history only).               *)

Frame(min_bp, entry) ==
    [min_bp |-> min_bp, pc |-> "seed", lhs |-> NilExpr, op |-> "", entry |-> entry]

Top == stack[Len(stack)]

SetTop(f) == [stack EXCEPT ![Len(stack)] = f]

\* the innermost invocation of parse is at position at
AtParse(at) == pc = "parse" /\ stack # <<>> /\ Top.pc = at

\* in.ReadString('\n'): the line read, its newline included
Init ==
    /\ input \in {body \o <<10>> :
                    body \in SeqsUpTo(LineChars, MaxLen) \cup NamedLines}
    /\ tokens = <<>>
    /\ returned = <<>>
    /\ peeked = NilToken
    /\ pc = "New"
    /\ stack = <<>>
    /\ parsed = NilExpr
    /\ output = <<>>
    /\ panic = NoPanic
    /\ steps = 0

\* lexer := New(a)
MainNew ==
    /\ pc = "New"
    /\ tokens' = New(input)
    /\ pc' = "call"
    /\ steps' = steps + 1
    /\ UNCHANGED <<input, returned, peeked, stack, parsed, output, panic>>

\* the call parse(lexer, 0)
MainParse ==
    /\ pc = "call"
    /\ stack' = <<Frame(0, Len(tokens))>>
    /\ pc' = "parse"
    /\ steps' = steps + 1
    /\ UNCHANGED <<input, tokens, returned, peeked, parsed, output, panic>>

\* parse, lines 165-189: consume the seed token and switch on its type
ParseSeed ==
    /\ AtParse("seed")
    /\ LET r == LexerNext(tokens)
           lhsExpr == r.token
       IN
        IF lhsExpr = NilToken
        THEN \* lhsExpr.getTokenType() on the nil interface
             /\ returned' = Append(returned, lhsExpr)
             /\ tokens' = r.tokens
             /\ panic' = RuntimeError("invalid memory address or nil pointer dereference")
             /\ pc' = "crashed"
             /\ UNCHANGED stack
        ELSE IF lhsExpr.type = "Integer"
        THEN /\ returned' = Append(returned, lhsExpr)
             /\ tokens' = r.tokens
             /\ stack' = SetTop([Top EXCEPT !.pc = "loop", !.lhs = IntegerExpr(lhsExpr.value)])
             /\ UNCHANGED <<pc, panic>>
        ELSE IF lhsExpr.type = "Operand" /\ lhsExpr.literal = "("
        THEN \* l.next(); expr := parse(l, 0)
             LET r2 == LexerNext(r.tokens) IN
             /\ returned' = returned \o <<lhsExpr, r2.token>>
             /\ tokens' = r2.tokens
             /\ stack' = Append(SetTop([Top EXCEPT !.pc = "paren", !.op = lhsExpr.literal]),
                                Frame(0, Len(r2.tokens)))
             /\ UNCHANGED <<pc, panic>>
        ELSE IF lhsExpr.type = "Operand"
        THEN /\ returned' = Append(returned, lhsExpr)
             /\ tokens' = r.tokens
             /\ IF lhsExpr.literal \notin DOMAIN prefixBindingPowerMap
                THEN \* prefixBindingPowerMap[literal] is the nil slice
                     /\ panic' = RuntimeError("index out of range [1] with length 0")
                     /\ pc' = "crashed"
                     /\ UNCHANGED stack
                ELSE LET r_bp == prefixBindingPowerMap[lhsExpr.literal][2] IN
                     /\ stack' = Append(SetTop([Top EXCEPT !.pc = "prefix_rhs",
                                                           !.op = lhsExpr.literal]),
                                        Frame(r_bp, Len(r.tokens)))
                     /\ UNCHANGED <<pc, panic>>
        ELSE \* no case of the switch matches: lhs stays nil
             /\ returned' = Append(returned, lhsExpr)
             /\ tokens' = r.tokens
             /\ stack' = SetTop([Top EXCEPT !.pc = "loop"])
             /\ UNCHANGED <<pc, panic>>
    /\ steps' = steps + 1
    /\ UNCHANGED <<input, peeked, parsed, output>>

\* parse, lines 190-210: one pass of the loop, up to its break or its recursive call
ParseLoop ==
    /\ AtParse("loop")
    /\ LET op == LexerPeek(tokens) IN
        IF op = NilToken
        THEN /\ stack' = SetTop([Top EXCEPT !.pc = "return"])
             /\ UNCHANGED <<tokens, returned, pc, panic>>
        ELSE IF op.type # "Operand"
        THEN /\ panic' = ExplicitPanic("Integer should be followed by an operand")
             /\ pc' = "crashed"
             /\ UNCHANGED <<tokens, returned, stack>>
        ELSE IF op.literal \notin DOMAIN operatorBindingPowerMap
        THEN /\ panic' = RuntimeError("index out of range [0] with length 0")
             /\ pc' = "crashed"
             /\ UNCHANGED <<tokens, returned, stack>>
        ELSE LET l_bp == operatorBindingPowerMap[op.literal][1]
                 r_bp == operatorBindingPowerMap[op.literal][2]
             IN
             IF l_bp < Top.min_bp
             THEN /\ stack' = SetTop([Top EXCEPT !.pc = "return"])
                  /\ UNCHANGED <<tokens, returned, pc, panic>>
             ELSE LET r == LexerNext(tokens) IN
                  /\ returned' = Append(returned, r.token)
                  /\ tokens' = r.tokens
                  /\ stack' = Append(SetTop([Top EXCEPT !.pc = "infix_rhs",
                                                        !.op = op.literal]),
                                     Frame(r_bp, Len(r.tokens)))
                  /\ UNCHANGED <<pc, panic>>
    /\ steps' = steps + 1
    /\ UNCHANGED <<input, peeked, parsed, output>>

\* parse, line 211: return lhs to the caller, which goes on after its call
ParseReturn ==
    /\ AtParse("return")
    /\ IF Len(stack) = 1
       THEN \* parsed := parse(lexer, 0)
            /\ parsed' = Top.lhs
            /\ stack' = <<>>
            /\ pc' = "eval"
            /\ UNCHANGED panic
       ELSE LET caller == stack[Len(stack) - 1]
                rest == SubSeq(stack, 1, Len(stack) - 2)
            IN
            IF caller.pc = "prefix_rhs"
            THEN /\ stack' = Append(rest, [caller EXCEPT !.pc = "loop",
                                             !.lhs = PrefixExpression(caller.op, Top.lhs)])
                 /\ UNCHANGED <<parsed, pc, panic>>
            ELSE IF caller.pc = "infix_rhs"
            THEN /\ stack' = Append(rest, [caller EXCEPT !.pc = "loop",
                                             !.lhs = InfixExpression(caller.lhs, Top.lhs, caller.op)])
                 /\ UNCHANGED <<parsed, pc, panic>>
            ELSE \* lines 176-182: the caller waits in the "(" branch
                 /\ stack' = Append(rest, [caller EXCEPT !.lhs = Top.lhs])
                 /\ pc' = "crashed"
                 /\ panic' = IF LexerPeek(tokens) = NilToken
                             THEN RuntimeError("invalid memory address or nil pointer dereference")
                             ELSE IF TokenExpressionValue(LexerPeek(tokens)) # ")"
                             THEN ExplicitPanic("Expected right paren")
                             ELSE RuntimeError("index out of range [1] with length 0")
                 /\ UNCHANGED parsed
    /\ steps' = steps + 1
    /\ UNCHANGED <<input, tokens, returned, peeked, output>>

\* fmt.Println(evalExpression(parsed))
MainEval ==
    /\ pc = "eval"
    /\ LET r == EvalExpression(parsed) IN
        IF r.panic # NoPanic
        THEN /\ panic' = r.panic
             /\ pc' = "crashed"
             /\ UNCHANGED output
        ELSE /\ output' = <<r.value>>
             /\ pc' = "done"
             /\ UNCHANGED panic
    /\ steps' = steps + 1
    /\ UNCHANGED <<input, tokens, returned, peeked, stack, parsed>>

Next == MainNew \/ MainParse \/ ParseSeed \/ ParseLoop \/ ParseReturn \/ MainEval

Spec == Init /\ [][Next]_vars

----------------------------------------------------------------------------
(* Properties of the tokenizer and the cursor.                              *)

NonNil(seq) == SelectSeq(seq, LAMBDA t : t # NilToken)

\* the cursor's unconsumed tokens, next one first
Unconsumed(toks) == [i \in 1..Len(toks) |-> toks[Len(toks) + 1 - i]]

\* the code points that are whitespace, a digit or an operator
RecognisedRunes == {32, 13, 9, 10} \cup (48..57) \cup {43, 45, 42, 47}

StripUnrecognised(in) == SelectSeq(in, LAMBDA ch : ch \in RecognisedRunes)

\* C6: the values next() returns, in call order, are the tokens recognised
\* in the input, left to right, for every token count (then nil once the
\* cursor is exhausted); a peek() leaves the cursor as it was and returns
\* what the next() after it returns.
C6_CursorOrder ==
    LET got == NonNil(returned)
        all == Scan(input)
    IN
    /\ pc \in {"peek", "next", "drained"} =>
        /\ Len(got) <= Len(all)
        /\ got = SubSeq(all, 1, Len(got))
        /\ Unconsumed(tokens) = SubSeq(all, Len(got) + 1, Len(all))
    /\ pc = "drained" => got = all /\ returned = Append(all, NilToken)
    /\ (pc \in {"peek", "drained"} /\ returned # <<>>) =>
        returned[Len(returned)] = peeked

\* C6 witness: the four tokens (an even count) of "1+2*" have been drained
\* in order and next() has found the cursor exhausted.
C6_Witness ==
    /\ pc = "drained"
    /\ input = <<49, 43, 50, 42>>
    /\ returned = <<IntegerToken(1), OperatorToken("+"), IntegerToken(2),
                    OperatorToken("*"), NilToken>>

\* C2: the cursor New builds for an input is the one it builds for the
\* input with every rune removed that is not whitespace, a digit or an
\* operator.
C2_UnrecognisedDropped ==
    (pc = "peek" /\ returned = <<>>) => tokens = New(StripUnrecognised(input))

\* C10: in the earlier variant the values next() returns, in call order,
\* are the tokens recognised in the input, left to right.
C10_EarlyCursorOrder ==
    pc \in {"peek", "next", "crashed"} =>
        /\ Len(returned) <= Len(Scan(input))
        /\ returned = SubSeq(Scan(input), 1, Len(returned))

----------------------------------------------------------------------------
(* The standard grammar, evaluated directly on the token sequence:          *)
(*    expr    ::= term    (("+" | "-") term)*                               *)
(*    term    ::= operand (("*" | "/") operand)*                            *)
(*    operand ::= digit | ("+" | "-") digit                                 *)
(* A result is [ok, def, v, pos]: ok, the text up to pos is well-formed;    *)
(* def, no division by zero happened; v, the value; pos, the next index.    *)

IsIntAt(t, i) == i <= Len(t) /\ t[i].type = "Integer"

IsOpAt(t, i, lits) == i <= Len(t) /\ t[i].type = "Operand" /\ t[i].literal \in lits

RefFail(i) == [ok |-> FALSE, def |-> FALSE, v |-> 0, pos |-> i]

\* the quotient truncated toward zero: a = q * b + r, |r| < |b|, r has a's sign
RefQuot(a, b) ==
    CHOOSE q \in (0 - Abs(a))..Abs(a) :
        LET r == a - q * b IN
        /\ Abs(r) < Abs(b)
        /\ r = 0 \/ ((r < 0) = (a < 0))

RefOperand(t, i) ==
    IF IsIntAt(t, i)
    THEN [ok |-> TRUE, def |-> TRUE, v |-> t[i].value, pos |-> i + 1]
    ELSE IF IsOpAt(t, i, {"+", "-"}) /\ IsIntAt(t, i + 1)
    THEN [ok |-> TRUE, def |-> TRUE,
          v |-> IF t[i].literal = "-" THEN 0 - t[i + 1].value ELSE t[i + 1].value,
          pos |-> i + 2]
    ELSE RefFail(i)

RefCombine(lit, a, b) ==
    LET def == a.def /\ b.def /\ ~(lit = "/" /\ b.v = 0) IN
    [ok |-> TRUE, def |-> def,
     v |-> IF ~def THEN 0
           ELSE CASE lit = "+" -> a.v + b.v
                  [] lit = "-" -> a.v - b.v
                  [] lit = "*" -> a.v * b.v
                  [] lit = "/" -> RefQuot(a.v, b.v),
     pos |-> b.pos]

RECURSIVE RefTermRest(_, _)
RefTermRest(t, acc) ==
    IF acc.ok /\ IsOpAt(t, acc.pos, {"*", "/"})
    THEN LET u == RefOperand(t, acc.pos + 1) IN
         IF ~u.ok THEN u ELSE RefTermRest(t, RefCombine(t[acc.pos].literal, acc, u))
    ELSE acc

RefTerm(t, i) == RefTermRest(t, RefOperand(t, i))

RECURSIVE RefExprRest(_, _)
RefExprRest(t, acc) ==
    IF acc.ok /\ IsOpAt(t, acc.pos, {"+", "-"})
    THEN LET u == RefTerm(t, acc.pos + 1) IN
         IF ~u.ok THEN u ELSE RefExprRest(t, RefCombine(t[acc.pos].literal, acc, u))
    ELSE acc

RefExpr(t) == RefExprRest(t, RefTerm(t, 1))

WellFormed(t) == RefExpr(t).ok /\ RefExpr(t).pos = Len(t) + 1

DivideByZero == RuntimeError("integer divide by zero")

\* what main printed for the line body, once it is done
Prints(body, v) == (pc = "done" /\ input = body \o <<10>>) => output = <<v>>

\* C1: for a well-formed token sequence, parse returns a tree whose
\* evalExpression is the value the standard grammar gives (unary tighter
\* than * and /, these tighter than + and -, equal precedence to the left),
\* and main prints that value; where the grammar's value is undefined (a
\* division by zero), and only there, evalExpression panics.  In
\* particular 2-1-1 gives 0, 1+2*3 and 2*3+1 give 7, and -3+5 gives 2.
C1_StandardValue ==
    /\ Prints(<<50, 45, 49, 45, 49>>, 0)
    /\ Prints(<<49, 43, 50, 42, 51>>, 7)
    /\ Prints(<<50, 42, 51, 43, 49>>, 7)
    /\ Prints(<<45, 51, 43, 53>>, 2)
    /\ pc \in {"eval", "done", "crashed"} =>
        LET t == Scan(input) IN
        WellFormed(t) =>
            LET ref == RefExpr(t)
                expected == IF ref.def THEN Value(ref.v) ELSE Panicked(DivideByZero)
            IN
            /\ pc = "eval" => EvalExpression(parsed) = expected
            /\ pc = "done" => ref.def /\ output = <<ref.v>>
            /\ pc = "crashed" => ~ref.def /\ panic = DivideByZero /\ stack = <<>>

\* C1 witness: main has printed 7 for the line 1+2*3.
C1_Witness ==
    /\ pc = "done"
    /\ input = <<49, 43, 50, 42, 51, 10>>
    /\ output = <<7>>

----------------------------------------------------------------------------
(* Properties of parse.                                                     *)

\* the in-order flattening of an expression tree
RECURSIVE Flatten(_)
Flatten(e) ==
    CASE e.kind = "IntegerToken" -> <<IntegerToken(e.value)>>
      [] e.kind = "PrefixExpression" -> <<OperatorToken(e.op)>> \o Flatten(e.rhs)
      [] e.kind = "InfixExpression" ->
            Flatten(e.lhs) \o <<OperatorToken(e.op)>> \o Flatten(e.rhs)
      [] OTHER -> <<>>

\* the left binding powers of the precedence table: + and - 1, * and / 3
TableLeftBP(lit) == IF lit \in {"+", "-"} THEN 1 ELSE 3

\* the index in t of the first infix operator (an operator that follows an
\* integer) after index from whose left binding power is below min_bp;
\* Len(t) + 1 when there is none
FirstYieldingInfix(t, from, min_bp) ==
    LET low == {i \in (from + 1)..Len(t) :
                    /\ t[i].type = "Operand"
                    /\ t[i - 1].type = "Integer"
                    /\ TableLeftBP(t[i].literal) < min_bp}
    IN IF low = {} THEN Len(t) + 1
       ELSE CHOOSE i \in low : \A j \in low : i <= j

\* C9: when parse(cursor, 0) returns an expression the cursor is exhausted,
\* every token was returned by next() exactly once, in order, and the
\* in-order flattening of the tree is the token sequence; when an inner
\* parse(cursor, min_bp), min_bp > 0, returns, the unconsumed tokens are the
\* suffix that starts at the first infix operator after its first token
\* whose left binding power is below min_bp.
C9_ConsumedInOrder ==
    LET t == Scan(input) IN
    /\ pc = "eval" =>
        /\ tokens = <<>>
        /\ returned = t
        /\ Flatten(parsed) = t
    /\ (pc = "parse" /\ stack # <<>> /\ Top.pc = "return") =>
        IF Len(stack) = 1
        THEN tokens = <<>> /\ returned = t
        ELSE Top.min_bp > 0 =>
                LET first == Len(t) - Top.entry + 1
                    stop == FirstYieldingInfix(t, first, Top.min_bp)
                IN Unconsumed(tokens) = SubSeq(t, stop, Len(t))

\* C9 witness: parse(cursor, 0) has returned (1+2)-3 for the line 1+2-3,
\* whose inner parse(cursor, 2) stopped before the - and left -3 unconsumed.
C9_Witness ==
    /\ pc = "eval"
    /\ input = <<49, 43, 50, 45, 51, 10>>
    /\ parsed = InfixExpression(
                    InfixExpression(IntegerExpr(1), IntegerExpr(2), "+"),
                    IntegerExpr(3), "-")

Terminated == pc \in {"eval", "done", "crashed"}

\* every invocation that made a recursive call consumed a token before it
ConsumesBeforeRecursing ==
    \A i \in 1..(Len(stack) - 1) : stack[i].entry > stack[i + 1].entry

\* C8 as stated: the recursion depth never exceeds the number of tokens.
C8_DepthWithinTokens == Len(stack) <= Len(Scan(input))

\* some step of main is possible
CanStep ==
    \/ pc \in {"New", "call", "eval"}
    \/ AtParse("seed") \/ AtParse("loop") \/ AtParse("return")

\* C8 as amended: parse(cursor, 0) terminates with an expression or a
\* failure for every token sequence (main is never stuck before parse has
\* ended, and on n tokens it takes at most 3n + 3 steps); every invocation
\* consumes a token before it makes a recursive call; the recursion depth
\* never exceeds the number of tokens plus one.
C8_TerminatesDepthBounded ==
    LET n == Len(Scan(input)) IN
    /\ Len(stack) <= n + 1
    /\ ConsumesBeforeRecursing
    /\ steps <= 3 * n + 3
    /\ Terminated \/ CanStep

\* C8 witness: three invocations of parse are active on the two tokens of
\* the line "--" (the innermost has just found the cursor exhausted).
C8_Witness ==
    /\ input = <<45, 45, 10>>
    /\ Len(stack) = 3
    /\ Len(Scan(input)) = 2
    /\ pc = "crashed"

----------------------------------------------------------------------------
(* The failure outcomes.                                                    *)

\* e holds a division whose right operand evaluates to 0
RECURSIVE DividesByZero(_)
DividesByZero(e) ==
    CASE e.kind = "PrefixExpression" -> DividesByZero(e.rhs)
      [] e.kind = "InfixExpression" ->
            \/ e.op = "/" /\ EvalExpression(e.rhs) = Value(0)
            \/ DividesByZero(e.lhs)
            \/ DividesByZero(e.rhs)
      [] OTHER -> FALSE

\* C3: on an input without tokens parse never returns an expression and
\* never uses the absent token: the run ends in an explicit failure.
C3_EmptyInputFailsExplicitly ==
    Scan(input) = <<>> =>
        /\ pc \notin {"eval", "done"}
        /\ pc = "crashed" => panic.kind = "explicit"

\* C4: evaluating a tree that divides by zero ends in a defined error, never
\* in an integer and never in a crash of the runtime.
C4_DivisionByZeroDefined ==
    (pc \in {"done", "crashed"} /\ stack = <<>> /\ DividesByZero(parsed)) =>
        /\ pc = "crashed"
        /\ panic.kind = "explicit"

\* C5: next() never returns the nil token: on an exhausted cursor it fails.
C5_NextNeverReturnsNil ==
    \A i \in 1..Len(returned) : returned[i] # NilToken

\* C7: when the seed token parse consumed is the operator * or /, parsing
\* has failed with an explicit syntax error, not by reading the missing
\* entry of prefixBindingPowerMap.
C7_BadPrefixFailsExplicitly ==
    (/\ stack # <<>>
     /\ Top.pc = "seed"
     /\ Len(returned) = Len(Scan(input)) - Top.entry + 1
     /\ returned[Len(returned)] \in {OperatorToken("*"), OperatorToken("/")}) =>
        /\ pc = "crashed"
        /\ panic.kind = "explicit"

====
